---- MODULE Spec2Model ----
(***************************************************************************)
(* Squad and lineup optimisation engine of fpl-ml-system                   *)
(* (src/services/optimization_service.py).                                 *)
(*                                                                         *)
(* Numbers: expected points are held in tenths of a point, money in units  *)
(* of 1e-7 million, so that a stored price in tenths of a million          *)
(* (now_cost) converts by now_cost / 10.0 to now_cost * TenthUnits and a   *)
(* float budget that is not a whole number of tenths can be written down.  *)
(***************************************************************************)
EXTENDS Integers, Sequences, FiniteSets, TLC

VARIABLES status, pc, request, result

vars == <<status, pc, request, result>>

-----------------------------------------------------------------------------
(* Bounds of the explored inputs *)

MaxPreferred == 1
MaxExcluded == 1
MaxTransferLimit == 1
MaxSuggestions == 2

-----------------------------------------------------------------------------
(* The stored data: table players (db_models.Player) and player_predictions *)

Positions == <<"GKP", "DEF", "MID", "FWD">>

\* One row per player_id (the index): position, team_id, now_cost (tenths of
\* a million), form (tenths), total_points.
PlayerTable ==
  << [position |-> "GKP", team_id |-> 1, now_cost |-> 55,  form |-> 40, total_points |-> 120],
     [position |-> "GKP", team_id |-> 2, now_cost |-> 45,  form |-> 30, total_points |-> 90],
     [position |-> "GKP", team_id |-> 3, now_cost |-> 40,  form |-> 20, total_points |-> 40],
     [position |-> "DEF", team_id |-> 1, now_cost |-> 60,  form |-> 60, total_points |-> 160],
     [position |-> "DEF", team_id |-> 1, now_cost |-> 60,  form |-> 55, total_points |-> 130],
     [position |-> "DEF", team_id |-> 4, now_cost |-> 50,  form |-> 35, total_points |-> 100],
     [position |-> "DEF", team_id |-> 5, now_cost |-> 45,  form |-> 31, total_points |-> 80],
     [position |-> "DEF", team_id |-> 6, now_cost |-> 45,  form |-> 30, total_points |-> 70],
     [position |-> "DEF", team_id |-> 7, now_cost |-> 40,  form |-> 10, total_points |-> 30],
     [position |-> "MID", team_id |-> 1, now_cost |-> 130, form |-> 80, total_points |-> 230],
     [position |-> "MID", team_id |-> 2, now_cost |-> 100, form |-> 65, total_points |-> 170],
     [position |-> "MID", team_id |-> 3, now_cost |-> 80,  form |-> 50, total_points |-> 140],
     [position |-> "MID", team_id |-> 4, now_cost |-> 65,  form |-> 45, total_points |-> 110],
     [position |-> "MID", team_id |-> 5, now_cost |-> 55,  form |-> 20, total_points |-> 60],
     [position |-> "FWD", team_id |-> 1, now_cost |-> 100, form |-> 75, total_points |-> 210],
     [position |-> "FWD", team_id |-> 6, now_cost |-> 90,  form |-> 52, total_points |-> 150],
     [position |-> "FWD", team_id |-> 7, now_cost |-> 75,  form |-> 40, total_points |-> 95],
     [position |-> "FWD", team_id |-> 8, now_cost |-> 60,  form |-> 25, total_points |-> 45] >>

PlayerIds == DOMAIN PlayerTable

\* player_predictions.expected_points (tenths of a point); players without a
\* row in the outer join carry None and are valued by the fallback estimate.
PredictionTable ==
  ( 1 :> 45) @@ ( 2 :> 40)              @@
  ( 4 :> 75) @@ ( 5 :> 62) @@ ( 6 :> 60) @@ ( 7 :> 60) @@ ( 8 :> 58) @@
  (10 :> 90) @@ (11 :> 72) @@ (12 :> 60) @@ (13 :> 60) @@
  (15 :> 85) @@ (16 :> 53) @@ (17 :> 52)

\* Players whose availability the data refresh changes in this model.
FlakyPlayers == {4, 16}

Statuses == {"a", "i"}

-----------------------------------------------------------------------------
(* Generic helpers *)

RECURSIVE SumOver(_, _)
SumOver(S, f) ==
  IF S = {} THEN 0
  ELSE LET x == CHOOSE y \in S : TRUE IN f[x] + SumOver(S \ {x}, f)

Range(s) == {s[i] : i \in DOMAIN s}

Min(a, b) == IF a <= b THEN a ELSE b
Max(a, b) == IF a >= b THEN a ELSE b

\* The ids of S as a list in ascending id order (the row order of the query).
RECURSIVE SetToSeq(_)
SetToSeq(S) ==
  IF S = {} THEN <<>>
  ELSE LET m == CHOOSE x \in S : \A y \in S : x <= y
       IN <<m>> \o SetToSeq(S \ {m})

\* [pid for pid in s if pid not in S]
DropNothing(s, S) == s

Drop(s, S) == SelectSeq(s, LAMBDA x : x \notin S)

\* list.sort(key=..., reverse=True): descending by key, equal keys keep
\* their order (Python's sort is stable, also with reverse=True).
RECURSIVE InsertDesc(_, _, _)
InsertDesc(sorted, x, key) ==
  IF sorted = <<>> THEN <<x>>
  ELSE IF key[Head(sorted)] >= key[x]
       THEN <<Head(sorted)>> \o InsertDesc(Tail(sorted), x, key)
       ELSE <<x>> \o sorted

RECURSIVE SortDesc(_, _)
SortDesc(s, key) ==
  IF s = <<>> THEN <<>>
  ELSE InsertDesc(SortDesc(SubSeq(s, 1, Len(s) - 1), key), s[Len(s)], key)

\* {'GKP': g, 'DEF': d, 'MID': m, 'FWD': f}
Needs(g, d, m, f) == ("GKP" :> g) @@ ("DEF" :> d) @@ ("MID" :> m) @@ ("FWD" :> f)

\* A dict: the function f with its values computed once.
Dict(f) == f @@ <<>>

KSubsets(S, k) == {T \in SUBSET S : Cardinality(T) = k}

-----------------------------------------------------------------------------
(* Money and the request inputs *)

\* row.now_cost / 10.0: a price of one tenth of a million, in money units.
TenthUnits == 1000000

\* prob.solve(): the solver accepts a row whose activity exceeds its bound by
\* no more than its primal feasibility tolerance (1e-7, one money unit).
SolverTol == 1

\* budget: 97.9, 97.9999999 and 100.0 million.
Budgets == {979 * TenthUnits, 980 * TenthUnits - 1, 1000 * TenthUnits}

\* formation strings, as lists of characters; <<>> is None (or '').
Formations ==
  { <<>>,
    <<"4", "-", "4", "-", "2">>,
    <<"6", "-", "3", "-", "1">>,
    <<"5", "-", "5", "-", "3">>,
    <<"0", "-", "0", "-", "0">>,
    <<"4", "-", "4">>,
    <<"x", "-", "4", "-", "2">> }

\* 99 is an id that is in no table; 18 is the lowest-valued forward.
PreferredCandidates == {4, 18, 99}
ExcludedCandidates == {4, 10}

PreferredChoices == {P \in SUBSET PreferredCandidates : Cardinality(P) <= MaxPreferred}
ExcludedChoices == {X \in SUBSET ExcludedCandidates : Cardinality(X) <= MaxExcluded}

CapChoices == {2, 3}

\* existing_team: None, or the 15 cheapest players of a 2/5/5/3 squad.
ExistingTeams == { <<>>, <<2, 3, 5, 6, 7, 8, 9, 10, 11, 12, 13, 14, 16, 17, 18>> }

-----------------------------------------------------------------------------
(* _estimate_expected_points *)

\* round(x, 1) of x = n / d tenths: nearest, halves to even.
RoundDiv(n, d) ==
  LET q == n \div d
      r == n % d
  IN IF 2 * r > d THEN q + 1
     ELSE IF 2 * r < d THEN q
     ELSE IF q % 2 = 0 THEN q ELSE q + 1

position_base(position) ==
  CASE position = "GKP" -> 40
    [] position = "DEF" -> 45
    [] position = "MID" -> 55
    [] position = "FWD" -> 60
    [] OTHER -> 40

form_multiplier(form) ==
  IF form > 70 THEN 14 ELSE IF form > 50 THEN 12 ELSE IF form > 30 THEN 10 ELSE 7

points_multiplier(total_points) ==
  IF total_points > 200 THEN 15
  ELSE IF total_points > 150 THEN 13
  ELSE IF total_points > 100 THEN 11
  ELSE IF total_points > 50 THEN 9
  ELSE 6

cost_multiplier(now_cost) ==
  IF now_cost >= 120 THEN 13 ELSE IF now_cost >= 80 THEN 11 ELSE IF now_cost >= 50 THEN 10 ELSE 8

\* The multipliers are held times ten, so the product is in 1/1000 tenths.
EstimateExpectedPoints(pid) ==
  LET player == PlayerTable[pid]
      expected == position_base(player.position) * form_multiplier(player.form)
                    * points_multiplier(player.total_points)
                    * cost_multiplier(player.now_cost)
  IN Max(10, Min(150, RoundDiv(expected, 1000)))

-----------------------------------------------------------------------------
(* _get_player_data_for_optimization *)

\* The rows of the query: available players, minus the excluded ones when
\* excluded_players is a non-empty list.
QueryRowsKeepingExcluded(st, excluded_players) ==
  {pid \in PlayerIds : st[pid] = "a"}

QueryRows(st, excluded_players) ==
  {pid \in PlayerIds :
     /\ st[pid] = "a"
     /\ (excluded_players # {} => pid \notin excluded_players)}

GetPlayerDataForOptimization(st, excluded_players) ==
  Dict([pid \in QueryRows(st, excluded_players) |->
     [position |-> PlayerTable[pid].position,
      cost |-> PlayerTable[pid].now_cost * TenthUnits,
      team_id |-> PlayerTable[pid].team_id,
      expected_points |->
        IF pid \in DOMAIN PredictionTable
          THEN PredictionTable[pid]
          ELSE EstimateExpectedPoints(pid)]])

-----------------------------------------------------------------------------
(* _get_formation_constraints and the solver *)

\* config.FORMATION_CONSTRAINTS: the squad quota, whatever the formation.
GetFormationConstraintsWrongQuota(formation) ==
  Needs(2, 5, 4, 4)

GetFormationConstraints(formation) ==
  Needs(2, 5, 5, 3)

PositionPlayers(player_data, position) ==
  {pid \in DOMAIN player_data : player_data[pid].position = position}

\* The 0/1 assignments that meet the position rows (== count for each of the
\* four positions), as the sets of selected ids.
QuotaSquads(player_data, quota) ==
  { g \cup d \cup m \cup f :
      g \in KSubsets(PositionPlayers(player_data, "GKP"), quota["GKP"]),
      d \in KSubsets(PositionPlayers(player_data, "DEF"), quota["DEF"]),
      m \in KSubsets(PositionPlayers(player_data, "MID"), quota["MID"]),
      f \in KSubsets(PositionPlayers(player_data, "FWD"), quota["FWD"]) }

SquadCost(S, player_data) == SumOver(S, [pid \in DOMAIN player_data |-> player_data[pid].cost])

\* lpSum(cost * x) <= budget, a row of floats, met within the tolerance.
BudgetRow(S, player_data, budget) ==
  SquadCost(S, player_data) <= budget + SolverTol

\* for each team_id: lpSum(x of that team) <= max_players_per_team
TeamRowsNoLimit(S, player_data, max_players_per_team) == TRUE

TeamRows(S, player_data, max_players_per_team) ==
  \A tid \in {player_data[pid].team_id : pid \in DOMAIN player_data} :
    Cardinality({pid \in S : player_data[pid].team_id = tid}) <= max_players_per_team

\* x[pid] == 1 for the preferred ids that have a decision variable.
PreferredRows(S, player_data, preferred_players) ==
  \A pid \in preferred_players : pid \in DOMAIN player_data => pid \in S

\* transfers_out[pid] == 1 - x[pid] for the incumbents that have a decision
\* variable (the other transfers_out variables are free and can be 0), and
\* lpSum(transfers_out) <= transfer_limit; added only when existing_team is
\* non-empty and transfer_limit > 0.
TransferRows(S, player_data, existing_team, transfer_limit) ==
  (existing_team # <<>> /\ transfer_limit > 0) =>
    Cardinality({pid \in Range(existing_team) :
                   pid \in DOMAIN player_data /\ pid \notin S}) <= transfer_limit

Objective(S, coefficient) == SumOver(S, coefficient)

\* LpStatus
LpStatus == {"Optimal", "Not Solved", "Infeasible", "Unbounded", "Undefined"}

\* prob.solve(): the status and the variables' values (the set of ids whose
\* variable is 1).  A feasible problem ends Optimal with a maximiser, or is
\* stopped early (Not Solved) with the incumbent, any feasible assignment, or
\* with none; an infeasible one ends Infeasible; a failed run is Undefined.
Solve(feasible, coefficient) ==
  IF feasible = {}
    THEN {[status |-> "Infeasible", selected |-> {}]}
    ELSE LET obj == Dict([S \in feasible |-> Objective(S, coefficient)])
         IN {[status |-> "Optimal", selected |-> S] :
                S \in {T \in feasible : \A U \in feasible : obj[T] >= obj[U]}}
            \cup {[status |-> "Not Solved", selected |-> S] : S \in feasible}
            \cup {[status |-> "Not Solved", selected |-> {}],
                  [status |-> "Undefined", selected |-> {}]}

-----------------------------------------------------------------------------
(* _select_starting_xi *)

Digits == {"0", "1", "2", "3", "4", "5", "6", "7", "8", "9"}

DigitValue(c) ==
  CASE c = "0" -> 0 [] c = "1" -> 1 [] c = "2" -> 2 [] c = "3" -> 3 [] c = "4" -> 4
    [] c = "5" -> 5 [] c = "6" -> 6 [] c = "7" -> 7 [] c = "8" -> 8 [] c = "9" -> 9

\* formation.split('-')
RECURSIVE SplitDash(_)
SplitDash(s) ==
  IF s = <<>> THEN << <<>> >>
  ELSE LET rest == SplitDash(Tail(s))
       IN IF Head(s) = "-"
            THEN << <<>> >> \o rest
            ELSE << <<Head(s)>> \o Head(rest) >> \o Tail(rest)

\* int(part) raises ValueError unless part is a non-empty run of digits.
IsInt(part) == part # <<>> /\ \A i \in DOMAIN part : part[i] \in Digits

RECURSIVE ParseInt(_)
ParseInt(part) ==
  IF part = <<>> THEN 0
  ELSE 10 * ParseInt(SubSeq(part, 1, Len(part) - 1)) + DigitValue(part[Len(part)])

DefaultFormationNeeds == Needs(1, 3, 4, 3)

FormationNeeds(formation) ==
  IF formation = <<>> THEN DefaultFormationNeeds
  ELSE LET parts == SplitDash(formation)
       IN IF Len(parts) = 3 /\ \A i \in 1..3 : IsInt(parts[i])
            THEN Needs(1, ParseInt(parts[1]), ParseInt(parts[2]), ParseInt(parts[3]))
            ELSE DefaultFormationNeeds

\* The bonus of a preferred player in sort_key, in points.
PreferredBonus == 100

\* sort_key: the prediction, plus 100.0 for a preferred player; unit is the
\* number of units of player_predictions in a point.
SortKeyNoBonus(squad_players, player_predictions, preferred_players, unit) ==
  Dict([pid \in Range(squad_players) |-> player_predictions[pid]])

SortKey(squad_players, player_predictions, preferred_players, unit) ==
  Dict([pid \in Range(squad_players) |->
          IF pid \in preferred_players
            THEN player_predictions[pid] + PreferredBonus * unit
            ELSE player_predictions[pid]])

\* players_by_position[position], sorted.
SortedPosition(squad_players, position, player_predictions, player_positions, preferred_players, unit) ==
  SortDesc(SelectSeq(squad_players, LAMBDA pid : player_positions[pid] = position),
           SortKey(squad_players, player_predictions, preferred_players, unit))

\* [error |-> TRUE] is the ValueError "Not enough ... players in squad".
SelectStartingXI(squad_players, formation, player_predictions, player_positions, preferred_players, unit) ==
  LET formation_needs == FormationNeeds(formation)
      by_position == [i \in 1..4 |->
                        SortedPosition(squad_players, Positions[i], player_predictions,
                                       player_positions, preferred_players, unit)]
      need == [i \in 1..4 |-> formation_needs[Positions[i]]]
  IN IF \E i \in 1..4 : Len(by_position[i]) < need[i]
       THEN [error |-> TRUE, starting_xi |-> <<>>]
       ELSE [error |-> FALSE,
             starting_xi |-> SubSeq(by_position[1], 1, need[1])
                             \o SubSeq(by_position[2], 1, need[2])
                             \o SubSeq(by_position[3], 1, need[3])
                             \o SubSeq(by_position[4], 1, need[4])]

\* _validate_team_formation
ValidateTeamFormation(selected_players, player_positions) ==
  [i \in 1..4 |->
     Len(SelectSeq(selected_players, LAMBDA pid : player_positions[pid] = Positions[i]))]

-----------------------------------------------------------------------------
(* Fixtures and the multi-gameweek scores *)

\* Table fixtures, in query order; a difficulty of 0 is a NULL column.
FixtureTable ==
  << [gameweek |-> 1, home_team_id |-> 1, away_team_id |-> 2, home_difficulty |-> 2, away_difficulty |-> 4],
     [gameweek |-> 1, home_team_id |-> 3, away_team_id |-> 4, home_difficulty |-> 3, away_difficulty |-> 3],
     [gameweek |-> 1, home_team_id |-> 5, away_team_id |-> 6, home_difficulty |-> 0, away_difficulty |-> 5],
     [gameweek |-> 2, home_team_id |-> 2, away_team_id |-> 1, home_difficulty |-> 5, away_difficulty |-> 1],
     [gameweek |-> 2, home_team_id |-> 7, away_team_id |-> 8, home_difficulty |-> 2, away_difficulty |-> 3],
     [gameweek |-> 2, home_team_id |-> 4, away_team_id |-> 5, home_difficulty |-> 3, away_difficulty |-> 4],
     [gameweek |-> 3, home_team_id |-> 6, away_team_id |-> 7, home_difficulty |-> 2, away_difficulty |-> 2],
     [gameweek |-> 4, home_team_id |-> 6, away_team_id |-> 3, home_difficulty |-> 1, away_difficulty |-> 5],
     [gameweek |-> 4, home_team_id |-> 2, away_team_id |-> 1, home_difficulty |-> 5, away_difficulty |-> 5],
     [gameweek |-> 5, home_team_id |-> 8, away_team_id |-> 3, home_difficulty |-> 1, away_difficulty |-> 5],
     [gameweek |-> 7, home_team_id |-> 4, away_team_id |-> 8, home_difficulty |-> 2, away_difficulty |-> 4] >>

StartGameweeks == {1, 2}
\* gameweeks_ahead: the next week, or far enough for the weight to reach 0.5.
GameweeksAhead == {1, 6}

\* gameweek of optimize_for_gameweek, target_gameweek of suggest_free_transfers
TargetGameweeks == {1, 4}

\* x or 3
OrThree(x) == IF x = 0 THEN 3 ELSE x

\* _get_gameweek_fixture_context: every player of a club that plays in the
\* gameweek gets the context of the club's last fixture of that week.
RECURSIVE ContextFrom(_, _, _)
ContextFrom(fixtures, gameweek, context) ==
  IF fixtures = <<>> THEN context
  ELSE LET fixture == Head(fixtures)
           home == [pid \in {q \in PlayerIds : PlayerTable[q].team_id = fixture.home_team_id} |->
                      [is_home |-> TRUE,
                       fixture_difficulty |-> OrThree(fixture.home_difficulty)]]
           away == [pid \in {q \in PlayerIds : PlayerTable[q].team_id = fixture.away_team_id} |->
                      [is_home |-> FALSE,
                       fixture_difficulty |-> OrThree(fixture.away_difficulty)]]
       IN IF fixture.gameweek = gameweek
            THEN ContextFrom(Tail(fixtures), gameweek, away @@ home @@ context)
            ELSE ContextFrom(Tail(fixtures), gameweek, context)

GetGameweekFixtureContext(gameweek) == ContextFrom(FixtureTable, gameweek, <<>>)

\* list(range(start_gameweek, min(start_gameweek + gameweeks_ahead + 1, 39)))
GameweekRange(start_gameweek, gameweeks_ahead) ==
  LET stop == Min(start_gameweek + gameweeks_ahead + 1, 39)
  IN [i \in 1..Max(0, stop - start_gameweek) |-> start_gameweek + i - 1]

\* gw_score, in 1/1000 tenths: base * (1.05 if home) * (1 + (3 - difficulty) * 0.1)
GwScore(base_points, context) ==
  base_points * (IF context.is_home THEN 105 ELSE 100) * (10 + (3 - context.fixture_difficulty))

\* The weight of gameweek gw, times ten: 1.5 for the first of the window,
\* max(0.5, 1.0 - (gw - first) * 0.1) later.
GameweekWeightNoFloor(gw, first) == IF gw = first THEN 15 ELSE 10 - (gw - first)

GameweekWeight(gw, first) == IF gw = first THEN 15 ELSE Max(5, 10 - (gw - first))

\* multi_fixture_contexts, one context per gameweek of the range.
MultiFixtureContexts(gameweek_range) ==
  [i \in DOMAIN gameweek_range |-> GetGameweekFixtureContext(gameweek_range[i])] \o <<>>

\* current_gameweek_score, in 1/1000 tenths.
CurrentGameweekScoreLastContext(pid, base_points, gameweek_range, multi_fixture_contexts) ==
  IF gameweek_range = <<>> THEN base_points * 1000
  ELSE LET context == multi_fixture_contexts[Len(multi_fixture_contexts)]
       IN IF pid \in DOMAIN context THEN GwScore(base_points, context[pid]) ELSE 0

CurrentGameweekScore(pid, base_points, gameweek_range, multi_fixture_contexts) ==
  IF gameweek_range = <<>> THEN base_points * 1000
  ELSE LET context == multi_fixture_contexts[1]
       IN IF pid \in DOMAIN context THEN GwScore(base_points, context[pid]) ELSE 0

\* multi_gameweek_score, in 1/10000 tenths.
MultiGameweekScore(pid, base_points, gameweek_range, multi_fixture_contexts) ==
  SumOver(DOMAIN gameweek_range,
          [i \in DOMAIN gameweek_range |->
             LET context == multi_fixture_contexts[i]
             IN IF pid \in DOMAIN context
                  THEN GwScore(base_points, context[pid])
                         * GameweekWeight(gameweek_range[i], gameweek_range[1])
                  ELSE 0])

\* _get_multi_gameweek_player_data
GetMultiGameweekPlayerData(st, gameweek_range, multi_fixture_contexts, excluded_players) ==
  LET player_data == GetPlayerDataForOptimization(st, excluded_players)
  IN Dict([pid \in DOMAIN player_data |->
        [position |-> player_data[pid].position,
         cost |-> player_data[pid].cost,
         team_id |-> player_data[pid].team_id,
         expected_points |-> player_data[pid].expected_points,
         current_gameweek_score |->
           CurrentGameweekScore(pid, player_data[pid].expected_points, gameweek_range,
                                multi_fixture_contexts),
         multi_gameweek_score |->
           MultiGameweekScore(pid, player_data[pid].expected_points, gameweek_range,
                              multi_fixture_contexts)]])

-----------------------------------------------------------------------------
(* optimize_team *)

NoRequest == [op |-> "none"]
NoResult == [ok |-> FALSE, error |-> "none"]

\* raise ValueError(...) / IndexError
Raise(error) == [ok |-> FALSE, error |-> error]

\* The rows added to prob in optimize_team.
OptimizeTeamFeasible(player_data, budget, formation, preferred_players, max_players_per_team, existing_team, transfer_limit) ==
  {S \in QuotaSquads(player_data, GetFormationConstraints(formation)) :
     /\ BudgetRow(S, player_data, budget)
     /\ TeamRows(S, player_data, max_players_per_team)
     /\ PreferredRows(S, player_data, preferred_players)
     /\ TransferRows(S, player_data, existing_team, transfer_limit)}

\* The statement after prob.solve(): only the status Infeasible raises.
StatusRaises(solver_status) ==
  solver_status # "Optimal" /\ solver_status = "Infeasible"

\* optimize_team from the solver's outcome on: the returned dict or the error.
OptimizeTeamReturn(player_data, outcome, budget, formation, preferred_players, existing_team) ==
  LET player_predictions ==
        Dict([pid \in DOMAIN player_data |-> player_data[pid].expected_points])
      player_positions == Dict([pid \in DOMAIN player_data |-> player_data[pid].position])
      selected_players == SetToSeq(outcome.selected)
      xi == SelectStartingXI(selected_players, formation, player_predictions,
                             player_positions, preferred_players, 10)
      starting_xi == xi.starting_xi
      captain_candidates == SortDesc(starting_xi, player_predictions)
      total_cost == SquadCost(outcome.selected, player_data)
  IN IF StatusRaises(outcome.status) THEN Raise("Infeasible")
     ELSE IF Len(selected_players) # 15 THEN Raise("InvalidTeamSize")
     ELSE IF xi.error THEN Raise("NotEnoughPlayers")
     ELSE IF Len(captain_candidates) < 2 THEN Raise("IndexError")
     ELSE [ok |-> TRUE,
           players |-> selected_players,
           starting_xi |-> starting_xi,
           bench |-> Drop(selected_players, Range(starting_xi)),
           captain_id |-> captain_candidates[1],
           vice_captain_id |-> captain_candidates[2],
           total_cost |-> total_cost,
           expected_points |-> Objective(Range(starting_xi), player_predictions),
           squad_expected_points |-> Objective(outcome.selected, player_predictions),
           formation |-> ValidateTeamFormation(starting_xi, player_positions),
           budget_remaining |-> budget - total_cost,
           optimization_status |-> outcome.status,
           transfers_in |-> Drop(selected_players, Range(existing_team)),
           transfers_out |-> Drop(existing_team, outcome.selected),
           transfer_count |-> Len(Drop(existing_team, outcome.selected))]

OptimizeTeam ==
  /\ pc = "idle"
  /\ \E budget \in Budgets, preferred_players \in PreferredChoices,
        excluded_players \in ExcludedChoices, max_players_per_team \in CapChoices,
        existing_team \in ExistingTeams, transfer_limit \in 0..MaxTransferLimit,
        formation \in Formations :
       /\ existing_team = <<>> => transfer_limit = 1
       /\ LET player_data == GetPlayerDataForOptimization(status, excluded_players)
              player_predictions ==
                Dict([pid \in DOMAIN player_data |-> player_data[pid].expected_points])
              outcomes ==
                Solve(OptimizeTeamFeasible(player_data, budget, formation, preferred_players,
                                           max_players_per_team, existing_team,
                                           transfer_limit),
                      player_predictions)
          IN /\ request' = [op |-> "optimize_team",
                            budget |-> budget,
                            formation |-> formation,
                            preferred_players |-> preferred_players,
                            excluded_players |-> excluded_players,
                            max_players_per_team |-> max_players_per_team,
                            existing_team |-> existing_team,
                            transfer_limit |-> transfer_limit]
             /\ IF DOMAIN player_data = {}
                  THEN result' = Raise("NoData")
                  ELSE \E outcome \in outcomes :
                         result' = OptimizeTeamReturn(player_data, outcome, budget,
                                                      formation, preferred_players,
                                                      existing_team)
  /\ pc' = "done"
  /\ UNCHANGED status

\* The results optimize_team can give for the request req on the pool st.
OptimizeTeamResults(st, req) ==
  LET player_data == GetPlayerDataForOptimization(st, req.excluded_players)
      player_predictions ==
        Dict([pid \in DOMAIN player_data |-> player_data[pid].expected_points])
      outcomes ==
        Solve(OptimizeTeamFeasible(player_data, req.budget, req.formation,
                                   req.preferred_players, req.max_players_per_team,
                                   req.existing_team, req.transfer_limit),
              player_predictions)
  IN IF DOMAIN player_data = {} THEN {Raise("NoData")}
     ELSE {OptimizeTeamReturn(player_data, outcome, req.budget, req.formation,
                              req.preferred_players, req.existing_team) :
             outcome \in outcomes}

-----------------------------------------------------------------------------
(* optimize_for_multiple_gameweeks *)

\* The rows added to prob in optimize_for_multiple_gameweeks.
MultiGameweekFeasible(player_data, budget, formation, preferred_players, max_players_per_team) ==
  {S \in QuotaSquads(player_data, GetFormationConstraints(formation)) :
     /\ BudgetRow(S, player_data, budget)
     /\ TeamRows(S, player_data, max_players_per_team)
     /\ PreferredRows(S, player_data, preferred_players)}

\* expected_points is round(.., 2), in hundredths of a point, and so is
\* multi_gameweek_points.
MultiGameweekReturn(player_data, outcome, budget, formation, preferred_players) ==
  LET player_predictions ==
        Dict([pid \in DOMAIN player_data |-> player_data[pid].multi_gameweek_score])
      current_scores ==
        Dict([pid \in DOMAIN player_data |-> player_data[pid].current_gameweek_score])
      player_positions == Dict([pid \in DOMAIN player_data |-> player_data[pid].position])
      selected_players == SetToSeq(outcome.selected)
      xi == SelectStartingXI(selected_players, formation, current_scores,
                             player_positions, preferred_players, 10000)
      starting_xi == xi.starting_xi
      captain_candidates == SortDesc(starting_xi, current_scores)
      total_cost == SquadCost(outcome.selected, player_data)
  IN IF StatusRaises(outcome.status) THEN Raise("Infeasible")
     ELSE IF Len(selected_players) # 15 THEN Raise("InvalidTeamSize")
     ELSE IF xi.error THEN Raise("NotEnoughPlayers")
     ELSE IF Len(captain_candidates) < 1 THEN Raise("IndexError")
     ELSE [ok |-> TRUE,
           players |-> selected_players,
           starting_xi |-> starting_xi,
           bench |-> Drop(selected_players, Range(starting_xi)),
           captain_id |-> captain_candidates[1],
           vice_captain_id |->
             IF Len(captain_candidates) > 1
               THEN captain_candidates[2] ELSE captain_candidates[1],
           total_cost |-> total_cost,
           expected_points |-> RoundDiv(Objective(Range(starting_xi), current_scores), 100),
           multi_gameweek_points |-> RoundDiv(Objective(outcome.selected, player_predictions), 1000),
           formation |-> ValidateTeamFormation(starting_xi, player_positions),
           budget_remaining |-> budget - total_cost,
           optimization_status |-> outcome.status]

\* The formations tried with optimize_for_multiple_gameweeks.
MultiGameweekFormations ==
  { <<>>,
    <<"4", "-", "4", "-", "2">>,
    <<"6", "-", "3", "-", "1">>,
    <<"0", "-", "0", "-", "0">> }

\* The long window is tried from the first gameweek only.
OptimizeForMultipleGameweeks ==
  /\ pc = "idle"
  /\ \E start_gameweek \in StartGameweeks, gameweeks_ahead \in GameweeksAhead,
        budget \in Budgets, preferred_players \in PreferredChoices,
        excluded_players \in ExcludedChoices, max_players_per_team \in CapChoices,
        existing_team \in ExistingTeams, formation \in MultiGameweekFormations :
       LET gameweek_range == GameweekRange(start_gameweek, gameweeks_ahead)
           multi_fixture_contexts == MultiFixtureContexts(gameweek_range)
           player_data == GetMultiGameweekPlayerData(status, gameweek_range,
                                                     multi_fixture_contexts, excluded_players)
           player_predictions ==
             Dict([pid \in DOMAIN player_data |-> player_data[pid].multi_gameweek_score])
           outcomes ==
             Solve(MultiGameweekFeasible(player_data, budget, formation, preferred_players,
                                         max_players_per_team),
                   player_predictions)
       IN /\ gameweeks_ahead > 1 => start_gameweek = 1
          /\ request' = [op |-> "optimize_for_multiple_gameweeks",
                         start_gameweek |-> start_gameweek,
                         gameweeks_ahead |-> gameweeks_ahead,
                         budget |-> budget,
                         formation |-> formation,
                         preferred_players |-> preferred_players,
                         excluded_players |-> excluded_players,
                         max_players_per_team |-> max_players_per_team,
                         existing_team |-> existing_team,
                         transfer_limit |-> 1]
          /\ IF DOMAIN player_data = {}
               THEN result' = Raise("NoData")
               ELSE \E outcome \in outcomes :
                      result' = MultiGameweekReturn(player_data, outcome, budget,
                                                    formation, preferred_players)
  /\ pc' = "done"
  /\ UNCHANGED status

-----------------------------------------------------------------------------
(* suggest_captain and optimize_for_gameweek *)

\* The rows of the inner join with player_predictions for the ids of
\* team_players, in query order.
CaptainRows(team_players) ==
  SetToSeq({pid \in Range(team_players) : pid \in PlayerIds /\ pid \in DOMAIN PredictionTable})

\* base_points (in 1/1000 tenths) of a row: the prediction, adjusted by the
\* player's fixture context when there is one.
CaptainPoints(pid, fixture_context) ==
  IF fixture_context # <<>> /\ pid \in DOMAIN fixture_context
    THEN GwScore(PredictionTable[pid], fixture_context[pid])
    ELSE PredictionTable[pid] * 1000

\* suggest_captain: the first two of the rows sorted by captain_points, or {}
\* (found |-> FALSE) when the ValueError for no rows is caught.
SuggestCaptain(team_players, fixture_context) ==
  LET rows == CaptainRows(team_players)
      captain_points == Dict([pid \in Range(rows) |-> 2 * CaptainPoints(pid, fixture_context)])
      sorted_players == SortDesc(rows, captain_points)
  IN IF rows = <<>> THEN [found |-> FALSE]
     ELSE [found |-> TRUE,
           captain_id |-> sorted_players[1],
           vice_captain_id |->
             IF Len(sorted_players) > 1 THEN sorted_players[2] ELSE sorted_players[1]]

\* optimize_for_gameweek after optimize_team has returned or raised:
\* result.update(captain_suggestion) and result['gameweek'].
OptimizeForGameweekReturn(team_result, gameweek) ==
  IF ~team_result.ok THEN team_result
  ELSE LET fixture_context == GetGameweekFixtureContext(gameweek)
           captain_suggestion == SuggestCaptain(team_result.players, fixture_context)
           updated == IF captain_suggestion.found
                        THEN [team_result EXCEPT
                                !.captain_id = captain_suggestion.captain_id,
                                !.vice_captain_id = captain_suggestion.vice_captain_id]
                        ELSE team_result
       IN [gameweek |-> gameweek] @@ updated

\* optimize_team is called with the budget alone, or with existing_team and
\* transfer_limit = free_transfers when existing_team is non-empty.
OptimizeForGameweek ==
  /\ pc = "idle"
  /\ \E gameweek \in TargetGameweeks, existing_team \in ExistingTeams,
        free_transfers \in 0..MaxTransferLimit, budget \in Budgets :
       /\ existing_team = <<>> => free_transfers = 1
       /\ LET transfer_limit == IF existing_team # <<>> THEN free_transfers ELSE 1
              player_data == GetPlayerDataForOptimization(status, {})
              player_predictions ==
                Dict([pid \in DOMAIN player_data |-> player_data[pid].expected_points])
              outcomes ==
                Solve(OptimizeTeamFeasible(player_data, budget, <<>>, {}, 3, existing_team,
                                           transfer_limit),
                      player_predictions)
          IN /\ request' = [op |-> "optimize_for_gameweek",
                            gameweek |-> gameweek,
                            budget |-> budget,
                            existing_team |-> existing_team,
                            free_transfers |-> free_transfers]
             /\ IF DOMAIN player_data = {}
                  THEN result' = Raise("NoData")
                  ELSE \E outcome \in outcomes :
                         result' = OptimizeForGameweekReturn(
                                     OptimizeTeamReturn(player_data, outcome, budget, <<>>, {},
                                                        existing_team),
                                     gameweek)
  /\ pc' = "done"
  /\ UNCHANGED status

-----------------------------------------------------------------------------
(* suggest_free_transfers *)

\* current_team: empty, an unknown id among known ones, a full squad, and
\* four outfield players.
CurrentTeams ==
  { <<>>,
    <<99, 9>>,
    <<2, 3, 5, 6, 7, 8, 9, 10, 11, 12, 13, 14, 16, 17, 18>>,
    <<4, 9, 14, 18>> }

\* budget_available: 0.0, 0.5 and 3.0 million, in tenths.
BudgetsAvailable == {0, 5, 30}

\* _calculate_player_expected_points, in tenths; the multipliers are held
\* times ten.
CalculatePlayerExpectedPoints(pid) ==
  LET player == PlayerTable[pid]
      form_mult == IF player.form >= 80 THEN 15
                   ELSE IF player.form >= 60 THEN 13
                   ELSE IF player.form >= 40 THEN 11
                   ELSE IF player.form >= 20 THEN 9 ELSE 6
      points_mult == IF player.total_points >= 250 THEN 16
                     ELSE IF player.total_points >= 200 THEN 14
                     ELSE IF player.total_points >= 150 THEN 12
                     ELSE IF player.total_points >= 100 THEN 10
                     ELSE IF player.total_points >= 50 THEN 8 ELSE 5
      cost_mult == IF player.now_cost >= 130 THEN 14
                   ELSE IF player.now_cost >= 100 THEN 12
                   ELSE IF player.now_cost >= 70 THEN 10
                   ELSE IF player.now_cost >= 50 THEN 9 ELSE 7
      expected == position_base(player.position) * form_mult * points_mult * cost_mult
  IN Max(10, Min(120, RoundDiv(expected, 1000)))

\* The keys of a dict filled in the order of s: s without repetitions.
RECURSIVE DictKeys(_)
DictKeys(s) ==
  IF s = <<>> THEN <<>>
  ELSE LET front == DictKeys(SubSeq(s, 1, Len(s) - 1))
       IN IF s[Len(s)] \in Range(front) THEN front ELSE Append(front, s[Len(s)])

\* current_players_data: the ids of current_team that Player.query.get finds
\* (whatever the status), with cost and form in tenths.
CurrentPlayersData(current_team) ==
  Dict([pid \in {q \in Range(current_team) : q \in PlayerIds} |->
          [id |-> pid,
           position |-> PlayerTable[pid].position,
           team_id |-> PlayerTable[pid].team_id,
           cost |-> PlayerTable[pid].now_cost,
           form |-> PlayerTable[pid].form,
           expected_points |-> CalculatePlayerExpectedPoints(pid)]])

\* fixture_context.get(team_id, {}).get('difficulty', 3): the contexts are
\* keyed by player id and carry 'fixture_difficulty', never 'difficulty'.
TeamFixtureDifficulty(fixture_context, team_id) == 3

\* _identify_weak_players: weakness_score of a player.
WeaknessScore(player, fixture_context) ==
  (IF player.form < 30 THEN 2 ELSE IF player.form < 40 THEN 1 ELSE 0)
  + (IF TeamFixtureDifficulty(fixture_context, player.team_id) > 3 THEN 1 ELSE 0)
  + (IF player.expected_points < 40 THEN 1 ELSE 0)
  + (IF player.cost > 0 /\ 2 * player.expected_points < player.cost THEN 1 ELSE 0)

\* _identify_weak_players: the ids sorted by weakness, highest first.
IdentifyWeakPlayers(player_ids, players_data, fixture_context) ==
  SortDesc(player_ids,
           Dict([pid \in Range(player_ids) |-> WeaknessScore(players_data[pid], fixture_context)]))

\* alternatives_query: available players of the position, priced at most
\* max_cost, other than the weak player; ordered by form, then total_points.
AlternativesQuery(st, weak_player, budget_available) ==
  SortDesc(SetToSeq({pid \in PlayerIds :
                       /\ PlayerTable[pid].position = weak_player.position
                       /\ st[pid] = "a"
                       /\ PlayerTable[pid].now_cost <= weak_player.cost + budget_available
                       /\ pid # weak_player.id}),
           Dict([pid \in PlayerIds |-> PlayerTable[pid].form * 1000 + PlayerTable[pid].total_points]))

\* The rows with better prospects than the weak player.
BetterProspects(rows, weak_player, fixture_context) ==
  SelectSeq(rows,
    LAMBDA pid :
      \/ 10 * CalculatePlayerExpectedPoints(pid) > 11 * weak_player.expected_points
      \/ /\ PlayerTable[pid].form > weak_player.form + 10
         /\ TeamFixtureDifficulty(fixture_context, PlayerTable[pid].team_id) <= 3)

\* alternatives.sort(key=(expected_points, form), reverse=True); [:5]
TopFive(alternatives) ==
  SubSeq(SortDesc(alternatives,
                  Dict([pid \in PlayerIds |->
                          CalculatePlayerExpectedPoints(pid) * 1000 + PlayerTable[pid].form])),
         1, Min(5, Len(alternatives)))

\* _find_transfer_alternatives
FindTransferAlternatives(st, weak_player, fixture_context, budget_available) ==
  TopFive(BetterProspects(AlternativesQuery(st, weak_player, budget_available),
                          weak_player, fixture_context))

\* _calculate_transfer_value: improvement_score, in sixtieths of a point.
ImprovementScoreUncapped(out_player, in_id, fixture_context) ==
  LET points_diff == CalculatePlayerExpectedPoints(in_id) - out_player.expected_points
      form_diff == PlayerTable[in_id].form - out_player.form
      fixture_diff == TeamFixtureDifficulty(fixture_context, out_player.team_id)
                        - TeamFixtureDifficulty(fixture_context, PlayerTable[in_id].team_id)
      cost_diff == PlayerTable[in_id].now_cost - out_player.cost
  IN Max(0, 3 * points_diff) + Max(0, 2 * form_diff) + Max(0, 30 * fixture_diff)
     + (IF cost_diff <= 0 THEN 30 ELSE IF cost_diff <= 10 THEN 12 ELSE 0)

ImprovementScore(out_player, in_id, fixture_context) ==
  LET points_diff == CalculatePlayerExpectedPoints(in_id) - out_player.expected_points
      form_diff == PlayerTable[in_id].form - out_player.form
      fixture_diff == TeamFixtureDifficulty(fixture_context, out_player.team_id)
                        - TeamFixtureDifficulty(fixture_context, PlayerTable[in_id].team_id)
      cost_diff == PlayerTable[in_id].now_cost - out_player.cost
  IN Min(120, Max(0, 3 * points_diff))
     + Min(90, Max(0, 2 * form_diff))
     + Min(60, Max(0, 30 * fixture_diff))
     + (IF cost_diff <= 0 THEN 30 ELSE IF cost_diff <= 10 THEN 12 ELSE 0)

\* _calculate_transfer_priority
CalculateTransferPriority(improvement_score) ==
  IF improvement_score >= 240 THEN 5
  ELSE IF improvement_score >= 180 THEN 4
  ELSE IF improvement_score >= 120 THEN 3
  ELSE IF improvement_score >= 60 THEN 2
  ELSE 1

\* The suggestion dict for a weak player and an alternative, appended only
\* when the improvement_score is above 0.5.
Suggestion(weak_player, alternative, improvement_score) ==
  IF improvement_score > 30
    THEN << [transfer_out |-> weak_player.id,
             transfer_in |-> alternative,
             cost_difference |-> PlayerTable[alternative].now_cost - weak_player.cost,
             points_improvement |->
               CalculatePlayerExpectedPoints(alternative) - weak_player.expected_points,
             improvement_score |-> improvement_score,
             priority |-> CalculateTransferPriority(improvement_score)] >>
    ELSE <<>>

\* for alternative in alternatives[:1]
TopAlternativeSuggestion(weak_player, alternatives, fixture_context) ==
  IF alternatives = <<>> THEN <<>>
  ELSE Suggestion(weak_player, alternatives[1],
                  ImprovementScore(weak_player, alternatives[1], fixture_context))

\* The suggestions for one weak player.
WeakPlayerSuggestions(st, weak_player, fixture_context, budget_available) ==
  TopAlternativeSuggestion(weak_player,
                           FindTransferAlternatives(st, weak_player, fixture_context,
                                                    budget_available),
                           fixture_context)

\* for weak_player_id in weak_candidates[:2]
WeakCandidatesSuggestions(st, weak_candidates, current_players_data, fixture_context, budget_available) ==
  (IF Len(weak_candidates) >= 1
     THEN WeakPlayerSuggestions(st, current_players_data[weak_candidates[1]],
                                fixture_context, budget_available)
     ELSE <<>>)
  \o (IF Len(weak_candidates) >= 2
        THEN WeakPlayerSuggestions(st, current_players_data[weak_candidates[2]],
                                   fixture_context, budget_available)
        ELSE <<>>)

\* The suggestions of one position: of its two weakest players.
PositionSuggestions(st, position, current_players_data, keys, fixture_context, budget_available) ==
  WeakCandidatesSuggestions(st,
    IdentifyWeakPlayers(SelectSeq(keys, LAMBDA pid : current_players_data[pid].position = position),
                        current_players_data, fixture_context),
    current_players_data, fixture_context, budget_available)

\* for position in positions
AllPositionsSuggestions(st, current_players_data, keys, fixture_context, budget_available) ==
  PositionSuggestions(st, "GKP", current_players_data, keys, fixture_context, budget_available)
  \o PositionSuggestions(st, "DEF", current_players_data, keys, fixture_context, budget_available)
  \o PositionSuggestions(st, "MID", current_players_data, keys, fixture_context, budget_available)
  \o PositionSuggestions(st, "FWD", current_players_data, keys, fixture_context, budget_available)

\* transfer_suggestions before the sort; keys: the ids of
\* current_players_data in the order they were inserted.
TransferCandidates(st, current_team, target_gameweek, budget_available) ==
  AllPositionsSuggestions(st, CurrentPlayersData(current_team),
                          SelectSeq(DictKeys(current_team), LAMBDA pid : pid \in PlayerIds),
                          GetGameweekFixtureContext(target_gameweek), budget_available)

\* transfer_suggestions.sort(key=(priority, improvement_score), reverse=True)
SortSuggestionsUnsorted(transfer_suggestions) == transfer_suggestions

SortSuggestions(transfer_suggestions) ==
  [i \in DOMAIN transfer_suggestions |->
     transfer_suggestions[
       SortDesc([k \in DOMAIN transfer_suggestions |-> k],
                Dict([k \in DOMAIN transfer_suggestions |->
                        transfer_suggestions[k].priority * 1000
                          + transfer_suggestions[k].improvement_score]))[i]]] \o <<>>

\* transfer_suggestions[:max_suggestions], for max_suggestions >= 0
Truncate(transfer_suggestions, max_suggestions) ==
  SubSeq(transfer_suggestions, 1, Min(max_suggestions, Len(transfer_suggestions)))

\* The returned dict of the try block.
SuggestionsResult(final_suggestions, target_gameweek) ==
  [ok |-> TRUE,
   gameweek |-> target_gameweek,
   suggestions |-> final_suggestions,
   total_suggestions |-> Len(final_suggestions),
   error |-> "none"]

\* The body of the try block.
SuggestFreeTransfersTry(st, current_team, target_gameweek, max_suggestions, budget_available) ==
  SuggestionsResult(
    Truncate(SortSuggestions(TransferCandidates(st, current_team, target_gameweek,
                                                budget_available)),
             max_suggestions),
    target_gameweek)

\* except Exception: the dict returned in place of the exception.
SuggestFreeTransfersExceptReraise(target_gameweek) == Raise("Exception")

SuggestFreeTransfersExcept(target_gameweek) ==
  [ok |-> TRUE,
   gameweek |-> target_gameweek,
   suggestions |-> <<>>,
   total_suggestions |-> 0,
   error |-> "Exception"]

\* suggest_free_transfers; query_fails: a query of the try block raises (the
\* database is not reachable).
SuggestFreeTransfers ==
  /\ pc = "idle"
  /\ \E current_team \in CurrentTeams, target_gameweek \in TargetGameweeks,
        max_suggestions \in 0..MaxSuggestions, budget_available \in BudgetsAvailable,
        query_fails \in BOOLEAN :
       /\ request' = [op |-> "suggest_free_transfers",
                      current_team |-> current_team,
                      target_gameweek |-> target_gameweek,
                      max_suggestions |-> max_suggestions,
                      budget_available |-> budget_available]
       /\ result' = IF query_fails
                      THEN SuggestFreeTransfersExcept(target_gameweek)
                      ELSE SuggestFreeTransfersTry(status, current_team, target_gameweek,
                                                   max_suggestions, budget_available)
  /\ pc' = "done"
  /\ UNCHANGED status

-----------------------------------------------------------------------------
(* suggest_transfers *)

\* min_improvement: 0.1, in tenths of a point.
MinImprovements == {1}

\* _find_position_alternatives: the ten available players of the position
\* with the highest stored prediction that are not in excluded_players and
\* are priced within max_budget (money units).
FindPositionAlternatives(st, position, max_budget, excluded_players) ==
  LET rows == SetToSeq({pid \in DOMAIN PredictionTable :
                          /\ PlayerTable[pid].position = position
                          /\ st[pid] = "a"
                          /\ pid \notin excluded_players
                          /\ PlayerTable[pid].now_cost * TenthUnits <= max_budget})
      sorted == SortDesc(rows, PredictionTable)
  IN SubSeq(sorted, 1, Min(10, Len(sorted)))

\* TransferSuggestion(...) as suggest_transfers builds it: reasoning is the
\* empty string and confidence_score min(1.0, gain / 5.0), in hundredths.
NewTransferSuggestion(player_out, player_in, cost_change, expected_improvement) ==
  [player_out |-> player_out,
   player_in |-> player_in,
   cost_change |-> cost_change,
   expected_points_gain |-> expected_improvement,
   reasoning |-> <<>>,
   confidence_score |-> Min(100, 2 * expected_improvement)]

\* The field constraints of TransferSuggestion: reasoning min_length=10,
\* confidence_score ge=0 and le=1.
TransferSuggestionValid(suggestion) ==
  /\ Len(suggestion.reasoning) >= 10
  /\ suggestion.confidence_score >= 0
  /\ suggestion.confidence_score <= 100

\* The suggestions built for one current player, in the order of the
\* alternatives.
PlayerTransferSuggestions(alternatives, current_player_id, current_points, current_cost, budget_available, min_improvement) ==
  [k \in DOMAIN SelectSeq(alternatives,
       LAMBDA alt : /\ PredictionTable[alt] - current_points >= min_improvement
                    /\ PlayerTable[alt].now_cost * TenthUnits - current_cost
                         <= budget_available * TenthUnits) |->
     LET alt == SelectSeq(alternatives,
                  LAMBDA a : /\ PredictionTable[a] - current_points >= min_improvement
                             /\ PlayerTable[a].now_cost * TenthUnits - current_cost
                                  <= budget_available * TenthUnits)[k]
     IN NewTransferSuggestion(current_player_id, alt,
                              PlayerTable[alt].now_cost * TenthUnits - current_cost,
                              PredictionTable[alt] - current_points)]

\* The suggestions built in the loops over the positions and over the
\* members of current_team that are in current_data.
RECURSIVE BuiltSuggestions(_, _, _, _, _, _)
BuiltSuggestions(st, players, current_team, current_data, budget_available, min_improvement) ==
  IF players = <<>> THEN <<>>
  ELSE LET pid == Head(players)
           available_budget ==
             SquadCost(Range(current_team) \cap DOMAIN current_data, current_data)
               + budget_available * TenthUnits
       IN PlayerTransferSuggestions(
            FindPositionAlternatives(st, current_data[pid].position, available_budget,
                                     Range(current_team)),
            pid, current_data[pid].expected_points, current_data[pid].cost,
            budget_available, min_improvement)
          \o BuiltSuggestions(st, Tail(players), current_team, current_data,
                              budget_available, min_improvement)

\* The members of current_team with data, position by position.
KnownByPosition(current_team, current_data) ==
  SelectSeq(current_team, LAMBDA pid : pid \in DOMAIN current_data /\ current_data[pid].position = "GKP")
  \o SelectSeq(current_team, LAMBDA pid : pid \in DOMAIN current_data /\ current_data[pid].position = "DEF")
  \o SelectSeq(current_team, LAMBDA pid : pid \in DOMAIN current_data /\ current_data[pid].position = "MID")
  \o SelectSeq(current_team, LAMBDA pid : pid \in DOMAIN current_data /\ current_data[pid].position = "FWD")

\* suggestions.sort(key=expected_points_gain, reverse=True)
SortByGain(suggestions) ==
  [i \in DOMAIN suggestions |->
     suggestions[SortDesc([k \in DOMAIN suggestions |-> k],
                          Dict([k \in DOMAIN suggestions |->
                                  suggestions[k].expected_points_gain]))[i]]] \o <<>>

\* suggest_transfers: the returned list; the ValidationError of the first
\* suggestion that does not meet the field constraints is caught by
\* 'except Exception' and [] is returned.
SuggestTransfersReturn(built, transfer_limit) ==
  IF \E i \in DOMAIN built : ~TransferSuggestionValid(built[i])
    THEN [ok |-> TRUE, suggestions |-> <<>>, error |-> "ValidationError"]
    ELSE [ok |-> TRUE,
          suggestions |-> SubSeq(SortByGain(built), 1, Min(3 * transfer_limit, Len(built))),
          error |-> "none"]

SuggestTransfers ==
  /\ pc = "idle"
  /\ \E current_team \in CurrentTeams, budget_available \in BudgetsAvailable,
        transfer_limit \in 0..MaxTransferLimit, min_improvement \in MinImprovements :
       /\ request' = [op |-> "suggest_transfers",
                      current_team |-> current_team,
                      budget_available |-> budget_available,
                      transfer_limit |-> transfer_limit,
                      min_improvement |-> min_improvement]
       /\ result' = SuggestTransfersReturn(
                      BuiltSuggestions(status,
                                       KnownByPosition(current_team,
                                                       GetPlayerDataForOptimization(status, {})),
                                       current_team,
                                       GetPlayerDataForOptimization(status, {}),
                                       budget_available, min_improvement),
                      transfer_limit)
  /\ pc' = "done"
  /\ UNCHANGED status

-----------------------------------------------------------------------------
(* OptimizationRequest and the optimize endpoints *)

\* budget of a posted request: 40.0, 100.0 and 110.0 million.
EndpointBudgets == {400 * TenthUnits, 1000 * TenthUnits, 1100 * TenthUnits}

\* Field(None, pattern=r'^\d-\d-\d$')
FormationPattern(v) ==
  /\ Len(v) = 5
  /\ v[1] \in Digits /\ v[2] = "-" /\ v[3] \in Digits /\ v[4] = "-" /\ v[5] \in Digits

\* validate_formation: None passes, else three parts that add up to 10.
ValidateFormation(v) ==
  v # <<>> =>
    LET parts == SplitDash(v)
    IN /\ Len(parts) = 3
       /\ \A i \in 1..3 : IsInt(parts[i])
       /\ ParseInt(parts[1]) + ParseInt(parts[2]) + ParseInt(parts[3]) = 10

\* OptimizationRequest(**request_data) raises no ValidationError.
OptimizationRequestValid(budget, formation, max_players_per_team) ==
  /\ budget >= 500 * TenthUnits
  /\ budget <= 1000 * TenthUnits
  /\ formation # <<>> => FormationPattern(formation)
  /\ ValidateFormation(formation)
  /\ max_players_per_team >= 1
  /\ max_players_per_team <= 5

\* The arguments the endpoints pass to optimize_team.
EndpointArguments(budget, formation, max_players_per_team) ==
  [budget |-> budget,
   formation |-> formation,
   preferred_players |-> {},
   excluded_players |-> {},
   max_players_per_team |-> max_players_per_team,
   existing_team |-> <<>>,
   transfer_limit |-> 1]

\* A response: the HTTP status, and whether prob.solve() was reached while
\* the request was served.
Response(status_code, error, solver_run, data) ==
  [ok |-> status_code = 200,
   status_code |-> status_code,
   error |-> error,
   solver_run |-> solver_run,
   data |-> data]

\* prob.solve() is reached unless optimize_team raises for no player data.
SolverRun(team_result) == team_result.ok \/ team_result.error # "NoData"

\* views/api.py optimize_team: the response for what the service returned or
\* raised; every exception gives 500.
ApiResponse(team_result) ==
  IF team_result.ok
    THEN Response(200, "none", SolverRun(team_result), team_result)
    ELSE Response(500, "Team optimization failed", SolverRun(team_result), team_result)

\* POST /api/optimize: request_data goes to optimize_team as it is.
ApiOptimizeTeam ==
  /\ pc = "idle"
  /\ \E budget \in EndpointBudgets, formation \in Formations :
       /\ request' = [op |-> "api_optimize"] @@ EndpointArguments(budget, formation, 3)
       /\ \E team_result \in OptimizeTeamResults(status, EndpointArguments(budget, formation, 3)) :
            result' = ApiResponse(team_result)
  /\ pc' = "done"
  /\ UNCHANGED status

\* views/optimizer.py optimize_team: a ValueError of the service gives 400,
\* any other exception 500.
OptimizerResponse(team_result) ==
  IF team_result.ok
    THEN Response(200, "none", SolverRun(team_result), team_result)
    ELSE IF team_result.error = "IndexError"
      THEN Response(500, "Optimization failed", SolverRun(team_result), team_result)
      ELSE Response(400, team_result.error, SolverRun(team_result), team_result)

\* POST /optimizer/optimize: the request is validated first.
OptimizerOptimizeTeam ==
  /\ pc = "idle"
  /\ \E budget \in EndpointBudgets, formation \in Formations :
       /\ request' = [op |-> "optimizer_optimize"] @@ EndpointArguments(budget, formation, 3)
       /\ IF OptimizationRequestValid(budget, formation, 3)
            THEN \E team_result \in OptimizeTeamResults(status, EndpointArguments(budget, formation, 3)) :
                   result' = OptimizerResponse(team_result)
            ELSE result' = Response(400, "Invalid request parameters", FALSE, NoResult)
  /\ pc' = "done"
  /\ UNCHANGED status

-----------------------------------------------------------------------------
(* The data refresh and the caller *)

\* DataService._update_players: the refresh writes every player's status.
UpdatePlayers ==
  /\ pc = "idle"
  /\ \E fresh \in [FlakyPlayers -> Statuses] :
       status' = [pid \in PlayerIds |-> IF pid \in FlakyPlayers THEN fresh[pid] ELSE "a"]
  /\ UNCHANGED <<pc, request, result>>

\* The caller takes the result (or the error); the engine keeps nothing.
Return ==
  /\ pc = "done"
  /\ pc' = "idle"
  /\ request' = NoRequest
  /\ result' = NoResult
  /\ UNCHANGED status

Init ==
  /\ status = [pid \in PlayerIds |-> "a"]
  /\ pc = "idle"
  /\ request = NoRequest
  /\ result = NoResult

Next ==
  \/ OptimizeTeam
  \/ OptimizeForMultipleGameweeks
  \/ OptimizeForGameweek
  \/ SuggestFreeTransfers
  \/ SuggestTransfers
  \/ ApiOptimizeTeam
  \/ OptimizerOptimizeTeam
  \/ UpdatePlayers
  \/ Return

Spec == Init /\ [][Next]_vars

-----------------------------------------------------------------------------
(* suggest_free_transfers beside a data refresh *)

\* The service opens no transaction and takes no lock: each query of a call
\* reads the rows committed at that moment, and the views run in threads
\* (threaded=True), so the commit of /data/refresh can fall between two
\* queries of one call.

\* The queries of _find_transfer_alternatives of one call, in order: two for
\* each position, for its weakest and its second weakest player.
LastQuery == 2 * Len(Positions)

QueryPosition(step) == Positions[(step + 1) \div 2]

QueryCandidate(step) == 2 - (step % 2)

\* weak_candidates of a position.
WeakCandidates(current_team, target_gameweek, position) ==
  IdentifyWeakPlayers(
    SelectSeq(SelectSeq(DictKeys(current_team), LAMBDA pid : pid \in PlayerIds),
              LAMBDA pid : CurrentPlayersData(current_team)[pid].position = position),
    CurrentPlayersData(current_team), GetGameweekFixtureContext(target_gameweek))

\* The suggestions appended for the weak candidate of one query, read from
\* the rows st committed at the time of the query.
QuerySuggestions(st, weak_candidates, candidate, current_team, target_gameweek, budget_available) ==
  IF Len(weak_candidates) >= candidate
    THEN WeakPlayerSuggestions(st, CurrentPlayersData(current_team)[weak_candidates[candidate]],
                               GetGameweekFixtureContext(target_gameweek), budget_available)
    ELSE <<>>

\* The call starts: current_players_data and fixture_context are read;
\* snapshots keeps the committed rows the call has run beside.
StartSuggestFreeTransfers ==
  /\ pc = "idle"
  /\ \E current_team \in CurrentTeams, target_gameweek \in TargetGameweeks,
        max_suggestions \in 0..MaxSuggestions, budget_available \in BudgetsAvailable :
       request' = [op |-> "suggest_free_transfers",
                   current_team |-> current_team,
                   target_gameweek |-> target_gameweek,
                   max_suggestions |-> max_suggestions,
                   budget_available |-> budget_available,
                   step |-> 1,
                   transfer_suggestions |-> <<>>,
                   snapshots |-> {status}]
  /\ pc' = "running"
  /\ UNCHANGED <<status, result>>

\* One pass of 'for weak_player_id in weak_candidates[:2]': the query of
\* _find_transfer_alternatives and the suggestion built from its rows.
FindTransferAlternativesStep ==
  /\ pc = "running"
  /\ request.step <= LastQuery
  /\ \E query_fails \in BOOLEAN :
       IF query_fails
         THEN /\ result' = SuggestFreeTransfersExcept(request.target_gameweek)
              /\ pc' = "done"
              /\ UNCHANGED request
         ELSE /\ request' =
                   [request EXCEPT
                      !.step = @ + 1,
                      !.transfer_suggestions =
                        @ \o QuerySuggestions(status,
                                              WeakCandidates(request.current_team,
                                                             request.target_gameweek,
                                                             QueryPosition(request.step)),
                                              QueryCandidate(request.step),
                                              request.current_team,
                                              request.target_gameweek,
                                              request.budget_available)]
              /\ UNCHANGED <<pc, result>>
  /\ UNCHANGED status

\* The sort, the slice and the returned dict.
FinishSuggestFreeTransfers ==
  /\ pc = "running"
  /\ request.step > LastQuery
  /\ result' = SuggestionsResult(Truncate(SortSuggestions(request.transfer_suggestions),
                                         request.max_suggestions),
                                request.target_gameweek)
  /\ pc' = "done"
  /\ UNCHANGED <<status, request>>

\* DataService.update_database_from_api in another thread: one commit replaces the
\* players' rows, whatever the calls in progress.
UpdatePlayersConcurrently ==
  /\ \E fresh \in [FlakyPlayers -> Statuses] :
       status' = [pid \in PlayerIds |-> IF pid \in FlakyPlayers THEN fresh[pid] ELSE "a"]
  /\ status' # status
  /\ request' = IF pc = "running"
                  THEN [request EXCEPT !.snapshots = @ \cup {status'}]
                  ELSE request
  /\ UNCHANGED <<pc, result>>

NextConcurrent ==
  \/ StartSuggestFreeTransfers
  \/ FindTransferAlternativesStep
  \/ FinishSuggestFreeTransfers
  \/ UpdatePlayersConcurrently
  \/ Return

SpecConcurrent == Init /\ [][NextConcurrent]_vars

-----------------------------------------------------------------------------
(* Properties of the returned squad *)

\* The call has returned a dict (no exception).
Returned == pc = "done" /\ result.ok

SquadCall == request.op \in {"optimize_team", "optimize_for_multiple_gameweeks"}

PositionCount(players, position) ==
  Cardinality({pid \in Range(players) : PlayerTable[pid].position = position})

TeamCount(players, team_id) ==
  Cardinality({pid \in Range(players) : PlayerTable[pid].team_id = team_id})

Formation442 == <<"4", "-", "4", "-", "2">>

\* C1: every squad returned by optimize_team or optimize_for_multiple_gameweeks
\* is 15 distinct player ids, 2 GKP, 5 DEF, 5 MID and 3 FWD, whatever the
\* requested formation.
C1_SquadQuota ==
  (Returned /\ SquadCall) =>
    /\ Len(result.players) = 15
    /\ Cardinality(Range(result.players)) = 15
    /\ PositionCount(result.players, "GKP") = 2
    /\ PositionCount(result.players, "DEF") = 5
    /\ PositionCount(result.players, "MID") = 5
    /\ PositionCount(result.players, "FWD") = 3

\* A squad returned for the formation 4-4-2, whose counts are not the quota.
C1_Witness ==
  /\ Returned
  /\ request.op = "optimize_for_multiple_gameweeks"
  /\ request.formation = Formation442
  /\ Len(result.starting_xi) = 11

\* C2: the selected players' prices, summed exactly in tenths, are at most
\* the budget (both sides in money units).
C2_CostWithinBudget ==
  (Returned /\ SquadCall) =>
    SumOver(Range(result.players),
            [pid \in PlayerIds |-> PlayerTable[pid].now_cost * TenthUnits]) <= request.budget

\* C3: no club has more than max_players_per_team players in a returned squad.
C3_ClubCap ==
  (Returned /\ SquadCall) =>
    \A pid \in Range(result.players) :
      TeamCount(result.players, PlayerTable[pid].team_id) <= request.max_players_per_team

\* A returned squad in which a club is at the cap of 2.
C3_Witness ==
  /\ Returned
  /\ SquadCall
  /\ request.max_players_per_team = 2
  /\ \E pid \in Range(result.players) :
       TeamCount(result.players, PlayerTable[pid].team_id) = 2
  /\ result.optimization_status = "Optimal"

\* C4: a squad returned by optimize_team contains every preferred id.
C4_PreferredIncluded ==
  (Returned /\ request.op = "optimize_team") =>
    request.preferred_players \subseteq Range(result.players)

\* C5: no returned squad holds an excluded player or one whose status is not 'a'.
C5_OnlyEligible ==
  (Returned /\ SquadCall) =>
    \A pid \in Range(result.players) :
      pid \notin request.excluded_players /\ status[pid] = "a"

\* A squad returned while a player is excluded and another is not available.
C5_Witness ==
  /\ Returned
  /\ SquadCall
  /\ request.excluded_players = {4}
  /\ status[16] = "i"

\* C6: with an existing_team and a transfer_limit >= 0, the number of
\* existing_team members missing from the returned squad, which is the
\* reported transfer_count, is at most transfer_limit.
C6_TransferLimit ==
  (Returned /\ request.op = "optimize_team" /\ request.existing_team # <<>>
     /\ request.transfer_limit >= 0) =>
    /\ result.transfer_count =
         Cardinality(Range(request.existing_team) \ Range(result.players))
    /\ result.transfer_count <= request.transfer_limit

\* The squads of the eligible pool that meet every constraint of the request
\* as the claims state them: the budget exactly, the quota, the club cap,
\* every preferred id, and the transfer limit whenever an existing team is
\* given.
StatedFeasible(st, req) ==
  LET eligible == {pid \in PlayerIds : st[pid] = "a" /\ pid \notin req.excluded_players}
      pool == [pid \in eligible |-> PlayerTable[pid]]
  IN {S \in QuotaSquads(pool, Needs(2, 5, 5, 3)) :
        /\ SumOver(S, [pid \in PlayerIds |-> PlayerTable[pid].now_cost * TenthUnits])
             <= req.budget
        /\ \A pid \in S :
             Cardinality({q \in S : PlayerTable[q].team_id = PlayerTable[pid].team_id})
               <= req.max_players_per_team
        /\ req.preferred_players \subseteq S
        /\ req.existing_team # <<>> =>
             Cardinality(Range(req.existing_team) \ S) <= req.transfer_limit}

\* C7: when no squad meets all the constraints of the request, optimize_team
\* raises and returns no squad.
C7_InfeasibleRaises ==
  (pc = "done" /\ request.op = "optimize_team" /\ StatedFeasible(status, request) = {}) =>
    ~result.ok

\* C8: a squad is returned only when the solver's status is Optimal.
C8_OnlyOptimalReturns ==
  (Returned /\ SquadCall) => result.optimization_status = "Optimal"

\* The counts C9 states: those of the formation when it is three integers
\* that add up to 10, else those of 3-4-3.
FormationNeedsChecked(formation) ==
  IF formation = <<>> THEN DefaultFormationNeeds
  ELSE LET parts == SplitDash(formation)
       IN IF Len(parts) = 3 /\ \A i \in 1..3 : IsInt(parts[i])
             /\ ParseInt(parts[1]) + ParseInt(parts[2]) + ParseInt(parts[3]) = 10
            THEN Needs(1, ParseInt(parts[1]), ParseInt(parts[2]), ParseInt(parts[3]))
            ELSE DefaultFormationNeeds

\* C9: the starting XI of optimize_team has 11 players, 1 GKP and the
\* DEF/MID/FWD counts of the formation, or those of 3-4-3 when the formation
\* is absent, is not three integers, or does not add up to 10.
C9_StartingXIShape ==
  (Returned /\ request.op = "optimize_team") =>
    LET needs == FormationNeedsChecked(request.formation)
    IN /\ Len(result.starting_xi) = 11
       /\ PositionCount(result.starting_xi, "GKP") = 1
       /\ \A position \in {"DEF", "MID", "FWD"} :
            PositionCount(result.starting_xi, position) = needs[position]

\* The value the captain is chosen by: expected_points in optimize_team,
\* current_gameweek_score in optimize_for_multiple_gameweeks.
CaptainValue(st, req) ==
  IF req.op = "optimize_team"
    THEN LET player_data == GetPlayerDataForOptimization(st, req.excluded_players)
         IN Dict([pid \in DOMAIN player_data |-> player_data[pid].expected_points])
    ELSE LET gameweek_range == GameweekRange(req.start_gameweek, req.gameweeks_ahead)
             player_data ==
               GetMultiGameweekPlayerData(st, gameweek_range,
                                          MultiFixtureContexts(gameweek_range),
                                          req.excluded_players)
         IN Dict([pid \in DOMAIN player_data |-> player_data[pid].current_gameweek_score])

\* C10: captain and vice-captain are two different starters; no other
\* starter is valued above the captain, and no starter other than the
\* captain is valued above the vice-captain.
C10_CaptainAndVice ==
  (Returned /\ SquadCall) =>
    LET val == CaptainValue(status, request)
        xi == Range(result.starting_xi)
    IN /\ result.captain_id # result.vice_captain_id
       /\ result.captain_id \in xi
       /\ result.vice_captain_id \in xi
       /\ \A pid \in xi : val[result.captain_id] >= val[pid]
       /\ \A pid \in xi \ {result.captain_id} : val[result.vice_captain_id] >= val[pid]

\* C11: in the result of optimize_for_gameweek the captain and the
\* vice-captain are two different members of the result's starting_xi.
C11_GameweekCaptainInXI ==
  (Returned /\ request.op = "optimize_for_gameweek") =>
    /\ result.captain_id \in Range(result.starting_xi)
    /\ result.vice_captain_id \in Range(result.starting_xi)
    /\ result.captain_id # result.vice_captain_id

\* C12: in every result of optimize_team and optimize_for_multiple_gameweeks
\* the starting XI has no duplicates and is part of the squad, the bench is
\* the squad without the starting XI, and the two are disjoint and together
\* the 15 players of the squad.
C12_LineupPartition ==
  (Returned /\ SquadCall) =>
    LET xi == Range(result.starting_xi)
        bench == Range(result.bench)
        squad == Range(result.players)
    IN /\ Cardinality(xi) = Len(result.starting_xi)
       /\ xi \subseteq squad
       /\ bench = squad \ xi
       /\ Cardinality(bench) = Len(result.bench)
       /\ xi \cap bench = {}
       /\ xi \cup bench = squad
       /\ Len(result.starting_xi) + Len(result.bench) = 15

\* A squad returned by optimize_team for the default formation, with a
\* bench of four.
C12_Witness ==
  /\ Returned
  /\ request.op = "optimize_team"
  /\ request.formation = <<>>
  /\ Len(result.bench) = 4
  /\ result.optimization_status = "Optimal"

\* C13: a second optimize_team call on the same pool with the same arguments
\* returns the same squad, starting XI, captain and vice-captain as the
\* first; stated for two calls that both end with the status Optimal.
C13_SameInputsSameResult ==
  (Returned /\ request.op = "optimize_team" /\ result.optimization_status = "Optimal") =>
    \A again \in OptimizeTeamResults(status, request) :
      (again.ok /\ again.optimization_status = "Optimal") =>
        /\ again.players = result.players
        /\ again.starting_xi = result.starting_xi
        /\ again.captain_id = result.captain_id
        /\ again.vice_captain_id = result.vice_captain_id

\* C14: when optimize_team returns a squad for budget b1, the same call with
\* a budget b2 >= b1 returns a squad too, and its total projected value is
\* at least that of the squad returned for b1.
C14_BudgetMonotone ==
  (Returned /\ request.op = "optimize_team") =>
    \A b2 \in Budgets :
      b2 >= request.budget =>
        \A larger \in OptimizeTeamResults(status, [request EXCEPT !.budget = b2]) :
          /\ larger.ok
          /\ larger.squad_expected_points >= result.squad_expected_points

\* C15: a squad returned by optimize_for_multiple_gameweeks for an
\* existing_team drops no more of its members than the transfers allowed
\* (one, the transfer_limit optimize_team defaults to).
C15_MultiGameweekTransferLimit ==
  (Returned /\ request.op = "optimize_for_multiple_gameweeks"
     /\ request.existing_team # <<>>) =>
    Cardinality(Range(request.existing_team) \ Range(result.players))
      <= request.transfer_limit

\* C16: in every suggestion of suggest_free_transfers the player going out
\* is a member of current_team and the player coming in is not.
C16_TransferInNotOwned ==
  (pc = "done" /\ request.op = "suggest_free_transfers") =>
    \A i \in DOMAIN result.suggestions :
      /\ result.suggestions[i].transfer_out \in Range(request.current_team)
      /\ result.suggestions[i].transfer_in \notin Range(request.current_team)

\* (priority, improvement_score) of a is not below that of b.
RankedNotBelow(a, b) ==
  \/ a.priority > b.priority
  \/ a.priority = b.priority /\ a.improvement_score >= b.improvement_score

\* C17: the suggestions of suggest_free_transfers are in non-increasing
\* order of (priority, improvement_score), are at most max_suggestions (as
\* many as that when there are enough candidates), and no candidate left out
\* is ranked above one that is returned.
C17_SortedAndTruncated ==
  (pc = "done" /\ request.op = "suggest_free_transfers") =>
    LET suggestions == result.suggestions
        candidates == TransferCandidates(status, request.current_team,
                                         request.target_gameweek, request.budget_available)
    IN /\ \A i, j \in DOMAIN suggestions :
            i < j => RankedNotBelow(suggestions[i], suggestions[j])
       /\ Len(suggestions) <= request.max_suggestions
       /\ result.error = "none" =>
            /\ Len(suggestions) = Min(request.max_suggestions, Len(candidates))
            /\ Range(suggestions) \subseteq Range(candidates)
            /\ \A c \in Range(candidates) \ Range(suggestions) :
                 \A r \in Range(suggestions) : RankedNotBelow(r, c)

\* One suggestion returned out of several candidates, the first of which (in
\* position order) is not the highest ranked.
C17_Witness ==
  /\ pc = "done"
  /\ request.op = "suggest_free_transfers"
  /\ result.error = "none"
  /\ request.max_suggestions = 1
  /\ Len(result.suggestions) = 1
  /\ LET candidates == TransferCandidates(status, request.current_team,
                                          request.target_gameweek, request.budget_available)
     IN /\ Len(candidates) >= 3
        /\ ~RankedNotBelow(candidates[1], result.suggestions[1])

\* C18: suggest_free_transfers returns a dict, never an exception, and the
\* dict's total_suggestions is the length of its suggestions list.
C18_NeverRaises ==
  (pc = "done" /\ request.op = "suggest_free_transfers") =>
    /\ result.ok
    /\ result.total_suggestions = Len(result.suggestions)

\* The call has returned the dict of the except branch.
C18_Witness ==
  /\ pc = "done"
  /\ request.op = "suggest_free_transfers"
  /\ result.ok
  /\ result.error = "Exception"
  /\ result.suggestions = <<>>

\* The eligible pool of a request lacks players for some position of the
\* quota (it is empty, or has fewer than 2 GKP, 5 DEF, 5 MID or 3 FWD).
PoolIncomplete(st, req) ==
  LET eligible == {pid \in PlayerIds : st[pid] = "a" /\ pid \notin req.excluded_players}
      quota == Needs(2, 5, 5, 3)
  IN \E position \in {"GKP", "DEF", "MID", "FWD"} :
       Cardinality({pid \in eligible : PlayerTable[pid].position = position}) < quota[position]

\* C19: when the eligible pool is empty or incomplete for a position,
\* optimize_team fails with the no-data error, which is not the error of
\* infeasible constraints, and returns no squad.
C19_IncompletePoolNoData ==
  (pc = "done" /\ request.op = "optimize_team" /\ PoolIncomplete(status, request)) =>
    /\ ~result.ok
    /\ result.error = "NoData"

\* C20: optimize_team fails, and returns no squad, for a request whose
\* preferred_players and excluded_players share an id.
C20_ContradictoryRequestRejected ==
  (pc = "done" /\ request.op = "optimize_team"
     /\ request.preferred_players \cap request.excluded_players # {}) =>
    ~result.ok

\* A request of one of the two optimize endpoints has been answered.
EndpointCall == pc = "done" /\ request.op \in {"api_optimize", "optimizer_optimize"}

\* Three single digits separated by '-' that add up to 10.
ThreeDigitsSumTen(formation) ==
  /\ Len(formation) = 5
  /\ formation[2] = "-" /\ formation[4] = "-"
  /\ \A i \in {1, 3, 5} : formation[i] \in Digits
  /\ DigitValue(formation[1]) + DigitValue(formation[3]) + DigitValue(formation[5]) = 10

\* C21: a request whose budget is outside [50.0, 100.0], or that names a
\* formation which is not three single digits separated by '-' adding up to
\* 10, is answered by the optimize endpoints with the validation error (400),
\* and the solver is not run for it.
C21_InvalidRequestRejected ==
  (EndpointCall
     /\ (\/ request.budget < 500 * TenthUnits
         \/ request.budget > 1000 * TenthUnits
         \/ request.formation # <<>> /\ ~ThreeDigitsSumTen(request.formation))) =>
    /\ result.status_code = 400
    /\ ~result.solver_run

\* The projected value optimize_team gives the eligible players of a request.
ProjectedValue(st, req) ==
  LET player_data == GetPlayerDataForOptimization(st, req.excluded_players)
  IN Dict([pid \in DOMAIN player_data |-> player_data[pid].expected_points])

\* S is a squad of eligible players within the quota, the budget and the
\* club cap of the request.
FeasibleSquad(S, st, req) ==
  /\ \A pid \in S : pid \in PlayerIds /\ st[pid] = "a" /\ pid \notin req.excluded_players
  /\ Cardinality(S) = 15
  /\ \A position \in {"GKP", "DEF", "MID", "FWD"} :
       Cardinality({pid \in S : PlayerTable[pid].position = position})
         = Needs(2, 5, 5, 3)[position]
  /\ SumOver(S, [pid \in PlayerIds |-> PlayerTable[pid].now_cost * TenthUnits]) <= req.budget
  /\ \A pid \in S :
       Cardinality({q \in S : PlayerTable[q].team_id = PlayerTable[pid].team_id})
         <= req.max_players_per_team

\* The squads obtainable from existing_team by one feasible swap.
OneSwapSquads(st, req) ==
  LET existing == Range(req.existing_team)
  IN {S \in {(existing \ {out}) \cup {in} : out \in existing, in \in PlayerIds \ existing} :
        FeasibleSquad(S, st, req)}

\* existing_team is a feasible squad of 15 eligible ids and some eligible
\* non-member has the position, club and cost of a member and a strictly
\* higher projected value.
BetterTwinOutside(st, req) ==
  LET existing == Range(req.existing_team)
      value == ProjectedValue(st, req)
  IN /\ Len(req.existing_team) = 15
     /\ FeasibleSquad(existing, st, req)
     /\ \E out \in existing, in \in DOMAIN value \ existing :
          /\ PlayerTable[in].position = PlayerTable[out].position
          /\ PlayerTable[in].team_id = PlayerTable[out].team_id
          /\ PlayerTable[in].now_cost = PlayerTable[out].now_cost
          /\ value[in] > value[out]

\* C22: with transfer_limit 1, a feasible existing_team of 15 eligible ids
\* and a better twin outside it, optimize_team returns a squad that differs
\* from existing_team in exactly one member and whose total projected value
\* is at least that of every squad one feasible swap away from existing_team.
C22_OneBestSwap ==
  (pc = "done" /\ request.op = "optimize_team" /\ request.existing_team # <<>>
     /\ request.transfer_limit = 1 /\ BetterTwinOutside(status, request)) =>
    /\ result.ok
    /\ Cardinality(Range(request.existing_team) \ Range(result.players)) = 1
    /\ Cardinality(Range(result.players) \ Range(request.existing_team)) = 1
    /\ \A S \in OneSwapSquads(status, request) :
         result.squad_expected_points >= SumOver(S, ProjectedValue(status, request))

\* C23: for a formation that passes the request validation (three single
\* digits adding up to 10), the starting XI is selected from every squad the
\* solver gives (which has 2 GKP, 5 DEF, 5 MID and 3 FWD): the call does not
\* fail with the not-enough-players error; and a call that fails returns no
\* lineup.
C23_ValidFormationFillsXI ==
  (pc = "done" /\ SquadCall) =>
    /\ (request.formation # <<>> /\ ThreeDigitsSumTen(request.formation)) =>
         (result.ok \/ result.error # "NotEnoughPlayers")
    /\ ~result.ok => "starting_xi" \notin DOMAIN result

\* A suggest_free_transfers call has returned.
AdvisorCall == pc = "done" /\ request.op = "suggest_free_transfers"

\* The fixture difficulty of a player in a gameweek's fixture context; 3
\* when the player's club has no fixture that week.
ContextDifficulty(fixture_context, pid) ==
  IF pid \in DOMAIN fixture_context THEN fixture_context[pid].fixture_difficulty ELSE 3

\* The weakness score as stated: 2 or 1 for poor form, 1 for a hard fixture,
\* 1 for low expected points, 1 for poor value.
StatedWeakness(pid, fixture_context) ==
  (IF PlayerTable[pid].form < 30 THEN 2 ELSE IF PlayerTable[pid].form < 40 THEN 1 ELSE 0)
  + (IF ContextDifficulty(fixture_context, pid) > 3 THEN 1 ELSE 0)
  + (IF CalculatePlayerExpectedPoints(pid) < 40 THEN 1 ELSE 0)
  + (IF 2 * CalculatePlayerExpectedPoints(pid) < PlayerTable[pid].now_cost THEN 1 ELSE 0)

\* The capped contributions of a pair to the improvement score, in sixtieths
\* of a point: the value delta / 2 in [0, 2], the form delta / 3 in [0, 1.5],
\* and 0.5 for a pair that is not more expensive, 0.2 for one that is at
\* most 1.0 more expensive.
ValueTerm(out_id, in_id) ==
  Min(120, Max(0, 3 * (CalculatePlayerExpectedPoints(in_id) - CalculatePlayerExpectedPoints(out_id))))

FormTerm(out_id, in_id) ==
  Min(90, Max(0, 2 * (PlayerTable[in_id].form - PlayerTable[out_id].form)))

CostTerm(out_id, in_id) ==
  IF PlayerTable[in_id].now_cost <= PlayerTable[out_id].now_cost THEN 30
  ELSE IF PlayerTable[in_id].now_cost <= PlayerTable[out_id].now_cost + 10 THEN 12
  ELSE 0

\* The fixture delta / 2 in [0, 1], by the difficulties of the context.
FixtureTerm(out_id, in_id, fixture_context) ==
  Min(60, Max(0, 30 * (ContextDifficulty(fixture_context, out_id)
                         - ContextDifficulty(fixture_context, in_id))))

\* C24: in suggest_free_transfers the weakness score of every incumbent and
\* the fixture part of every suggestion's improvement score are those of the
\* players' fixture difficulties in the context of the target gameweek (so
\* that a difficulty above 3 adds exactly 1 to the weakness score).
C24_ContextDifficultyUsed ==
  AdvisorCall =>
    LET fixture_context == GetGameweekFixtureContext(request.target_gameweek)
        current_players_data == CurrentPlayersData(request.current_team)
    IN /\ \A pid \in DOMAIN current_players_data :
            WeaknessScore(current_players_data[pid], fixture_context)
              = StatedWeakness(pid, fixture_context)
       /\ \A i \in DOMAIN result.suggestions :
            LET out_id == result.suggestions[i].transfer_out
                in_id == result.suggestions[i].transfer_in
            IN result.suggestions[i].improvement_score
                 = ValueTerm(out_id, in_id) + FormTerm(out_id, in_id)
                   + CostTerm(out_id, in_id) + FixtureTerm(out_id, in_id, fixture_context)

\* An optimize_for_multiple_gameweeks call has ended.
MultiCall == pc = "done" /\ request.op = "optimize_for_multiple_gameweeks"

\* The player data of the call.
MultiCallData ==
  LET gameweek_range == GameweekRange(request.start_gameweek, request.gameweeks_ahead)
  IN GetMultiGameweekPlayerData(status, gameweek_range, MultiFixtureContexts(gameweek_range),
                                request.excluded_players)

\* The fixture-adjusted value of a player of club team_id in gameweek gw, in
\* 1/1000 tenths: value * (1.05 if home) * (1 + (3 - difficulty) * 0.1), a
\* missing difficulty counting as 3; 0 when the club has no fixture.
StatedAdjustedValue(value, team_id, gw) ==
  LET rows == {i \in DOMAIN FixtureTable :
                 /\ FixtureTable[i].gameweek = gw
                 /\ team_id \in {FixtureTable[i].home_team_id, FixtureTable[i].away_team_id}}
  IN IF rows = {} THEN 0
     ELSE LET fixture == FixtureTable[CHOOSE i \in rows : TRUE]
              home == fixture.home_team_id = team_id
              stored == IF home THEN fixture.home_difficulty ELSE fixture.away_difficulty
              difficulty == IF stored = 0 THEN 3 ELSE stored
          IN value * (IF home THEN 105 ELSE 100) * (10 + (3 - difficulty))

\* Ten times the weight of gameweek g in a window that starts at start.
StatedWeight(g, start) ==
  IF g = start THEN 15
  ELSE IF 10 - (g - start) < 5 THEN 5 ELSE 10 - (g - start)

\* The multi-gameweek score as stated, in 1/10000 tenths.
StatedMultiScore(value, team_id, start, ahead) ==
  SumOver(start..(start + ahead),
          [g \in start..(start + ahead) |->
             StatedWeight(g, start) * StatedAdjustedValue(value, team_id, g)])

\* C25: the multi_gameweek_score of every player is the sum over the
\* gameweeks of the window of weight(g) times the fixture-adjusted value
\* (0 for a gameweek without a fixture), with weight 1.5 for the start
\* gameweek and max(0.5, 1 - 0.1 * (g - start)) later; the reported
\* multi_gameweek_points is the squad's sum of it, to two decimals.
C25_MultiGameweekScore ==
  MultiCall =>
    LET data == MultiCallData
        stated == Dict([pid \in DOMAIN data |->
                          StatedMultiScore(data[pid].expected_points, PlayerTable[pid].team_id,
                                           request.start_gameweek, request.gameweeks_ahead)])
    IN /\ \A pid \in DOMAIN data : data[pid].multi_gameweek_score = stated[pid]
       /\ result.ok =>
            result.multi_gameweek_points = RoundDiv(SumOver(Range(result.players), stated), 1000)

\* A squad returned for the window of gameweeks 1..7 with player 18, whose
\* club plays in gameweeks 2, 5 and 7 (weights 0.9, 0.6 and 0.5) and not in
\* gameweek 1.
C25_Witness ==
  /\ MultiCall
  /\ result.ok
  /\ request.start_gameweek = 1
  /\ request.gameweeks_ahead = 6
  /\ 18 \in Range(result.players)
  /\ MultiCallData[18].multi_gameweek_score > 0
  /\ MultiCallData[18].current_gameweek_score = 0

\* The current-gameweek score of the players of the call as stated: the
\* fixture-adjusted value for start_gameweek with weight 1.
StatedCurrentScore ==
  LET data == MultiCallData
  IN Dict([pid \in DOMAIN data |->
             StatedAdjustedValue(data[pid].expected_points, PlayerTable[pid].team_id,
                                 request.start_gameweek)])

\* The multi-gameweek score of the players of the call as stated.
StatedSquadScore ==
  LET data == MultiCallData
  IN Dict([pid \in DOMAIN data |->
             StatedMultiScore(data[pid].expected_points, PlayerTable[pid].team_id,
                              request.start_gameweek, request.gameweeks_ahead)])

\* What C26 says of a returned result apart from the reported
\* expected_points: the current_gameweek_score is the stated one; within a
\* position, and among players that are alike preferred or not, no benched
\* player has a higher current score than a starter; no starter has a higher
\* current score than the captain; and the squad of a run that ends Optimal
\* has the largest total multi-gameweek score of the squads that meet the
\* rows of the problem.
C26_ScoresUsed ==
  LET data == MultiCallData
      current == StatedCurrentScore
      squad_score == StatedSquadScore
      xi == Range(result.starting_xi)
      bench == Range(result.players) \ xi
  IN /\ \A pid \in DOMAIN data : data[pid].current_gameweek_score = current[pid]
     /\ \A s \in xi, b \in bench :
          (/\ PlayerTable[s].position = PlayerTable[b].position
           /\ (s \in request.preferred_players) = (b \in request.preferred_players)) =>
            current[s] >= current[b]
     /\ result.captain_id \in xi
     /\ \A pid \in xi : current[result.captain_id] >= current[pid]
     /\ result.optimization_status = "Optimal" =>
          \A S \in MultiGameweekFeasible(data, request.budget, request.formation,
                                          request.preferred_players,
                                          request.max_players_per_team) :
            SumOver(Range(result.players), squad_score) >= SumOver(S, squad_score)

\* C26 as stated: the reported expected_points (held in hundredths) is the
\* sum of the current-gameweek score (in 1/10000 of a point) over the
\* starting XI.
C26_ExpectedPointsIsSum ==
  (MultiCall /\ result.ok) =>
    /\ C26_ScoresUsed
    /\ result.expected_points * 100 = SumOver(Range(result.starting_xi), StatedCurrentScore)

\* C26, amended: the reported expected_points is that sum rounded to two
\* decimals.
C26_ExpectedPointsIsRoundedSum ==
  (MultiCall /\ result.ok) =>
    /\ C26_ScoresUsed
    /\ result.expected_points
         = RoundDiv(SumOver(Range(result.starting_xi), StatedCurrentScore), 100)

\* An Optimal squad for the window 1..7 in which a starter without a fixture
\* in gameweek 1 scores 0 now, the squad holds a player that scores more over
\* the window than now, and the sum over the XI is not a whole number of
\* hundredths.
C26_Witness ==
  /\ MultiCall
  /\ result.ok
  /\ result.optimization_status = "Optimal"
  /\ request.gameweeks_ahead = 6
  /\ \E pid \in Range(result.starting_xi) : StatedCurrentScore[pid] = 0
  /\ \E pid \in Range(result.players) : StatedSquadScore[pid] > 15 * StatedCurrentScore[pid]
  /\ SumOver(Range(result.starting_xi), StatedCurrentScore) % 100 # 0

\* C27: in a returned lineup a preferred squad member is on the bench only
\* if the preferred squad members of its position outnumber the starters of
\* that position; and within a position, among the preferred and among the
\* others, no benched player has a higher projected value than a starter.
C27_PreferredStartFirst ==
  (Returned /\ SquadCall) =>
    LET val == CaptainValue(status, request)
        squad == Range(result.players)
        xi == Range(result.starting_xi)
        bench == squad \ xi
    IN /\ \A b \in bench \cap request.preferred_players :
            Cardinality({pid \in squad \cap request.preferred_players :
                           PlayerTable[pid].position = PlayerTable[b].position})
              > PositionCount(result.starting_xi, PlayerTable[b].position)
       /\ \A s \in xi, b \in bench :
            (/\ PlayerTable[s].position = PlayerTable[b].position
             /\ (s \in request.preferred_players) = (b \in request.preferred_players)) =>
              val[s] >= val[b]

\* The preferred forward 18 starts in a 4-4-2 although a forward of higher
\* projected value is on the bench.
C27_Witness ==
  /\ Returned
  /\ SquadCall
  /\ request.preferred_players = {18}
  /\ request.formation = Formation442
  /\ 18 \in Range(result.starting_xi)
  /\ \E b \in Range(result.bench) :
       /\ PlayerTable[b].position = "FWD"
       /\ CaptainValue(status, request)[b] > CaptainValue(status, request)[18]

\* The tier of an improvement score (in sixtieths): >= 4 -> 5, >= 3 -> 4,
\* >= 2 -> 3, >= 1 -> 2, else 1.
StatedTier(score) ==
  CASE score >= 240 -> 5
    [] score >= 180 /\ score < 240 -> 4
    [] score >= 120 /\ score < 180 -> 3
    [] score >= 60 /\ score < 120 -> 2
    [] OTHER -> 1

\* C28: for every incumbent of the call and every other player, the
\* improvement_score of the pair is in [0, 5] and is the sum of the capped
\* value, form and cost contributions and a fixture contribution in [0, 1]
\* that is a whole number of halves; the priority of a score is its tier, a
\* tier in 1..5 that does not decrease with the score; and every suggestion
\* returned has an improvement_score above 0.5, the score of its pair, and
\* the priority of that score.
C28_ScoreRangeAndTier ==
  AdvisorCall =>
    LET fixture_context == GetGameweekFixtureContext(request.target_gameweek)
        current_players_data == CurrentPlayersData(request.current_team)
        pairs == {pair \in (DOMAIN current_players_data) \X PlayerIds : pair[1] # pair[2]}
        score == Dict([pair \in pairs |->
                         ImprovementScore(current_players_data[pair[1]], pair[2],
                                          fixture_context)])
    IN /\ \A pair \in pairs :
            /\ score[pair] >= 0
            /\ score[pair] <= 300
            /\ score[pair] - (ValueTerm(pair[1], pair[2]) + FormTerm(pair[1], pair[2])
                                + CostTerm(pair[1], pair[2])) \in {0, 30, 60}
            /\ CalculateTransferPriority(score[pair]) = StatedTier(score[pair])
       /\ \A a, b \in pairs :
            score[a] <= score[b] =>
              CalculateTransferPriority(score[a]) <= CalculateTransferPriority(score[b])
       /\ \A i \in DOMAIN result.suggestions :
            LET suggestion == result.suggestions[i]
            IN /\ suggestion.improvement_score > 30
               /\ suggestion.transfer_out \in DOMAIN current_players_data
               /\ suggestion.improvement_score
                    = score[<<suggestion.transfer_out, suggestion.transfer_in>>]
               /\ suggestion.priority = StatedTier(suggestion.improvement_score)

\* A returned suggestion whose value and form contributions are both cut to
\* their caps (2 and 1.5), and an incumbent pair that scores 0.
C28_Witness ==
  /\ AdvisorCall
  /\ \E i \in DOMAIN result.suggestions :
       /\ 3 * result.suggestions[i].points_improvement > 120
       /\ 2 * (PlayerTable[result.suggestions[i].transfer_in].form
                - PlayerTable[result.suggestions[i].transfer_out].form) > 90
       /\ result.suggestions[i].improvement_score = 210
       /\ result.suggestions[i].priority = 4
  /\ \E out_id \in Range(request.current_team) \cap PlayerIds, in_id \in PlayerIds :
       ImprovementScore(CurrentPlayersData(request.current_team)[out_id], in_id,
                        GetGameweekFixtureContext(request.target_gameweek)) = 0

\* Some member of current_team with a known value has an available
\* alternative of its position outside the team, with a stored prediction, a
\* gain of at least min_improvement and a cost increase within
\* budget_available.
QualifyingSwap(st, req) ==
  \E out_id \in Range(req.current_team) \cap PlayerIds, in_id \in PlayerIds \ Range(req.current_team) :
    /\ st[out_id] = "a"
    /\ st[in_id] = "a"
    /\ PlayerTable[in_id].position = PlayerTable[out_id].position
    /\ in_id \in DOMAIN PredictionTable
    /\ PredictionTable[in_id] - ProjectedValue(st, [excluded_players |-> {}])[out_id]
         >= req.min_improvement
    /\ PlayerTable[in_id].now_cost - PlayerTable[out_id].now_cost <= req.budget_available

\* C30: suggest_transfers with transfer_limit >= 1 returns a non-empty list
\* whenever a qualifying swap exists; the list has at most 3 * transfer_limit
\* suggestions, in non-increasing order of expected_points_gain, each a valid
\* TransferSuggestion.
C30_SuggestTransfersNonEmpty ==
  (pc = "done" /\ request.op = "suggest_transfers" /\ request.transfer_limit >= 1) =>
    /\ QualifyingSwap(status, request) => result.suggestions # <<>>
    /\ Len(result.suggestions) <= 3 * request.transfer_limit
    /\ \A i, j \in DOMAIN result.suggestions :
         i < j => result.suggestions[i].expected_points_gain
                    >= result.suggestions[j].expected_points_gain
    /\ \A i \in DOMAIN result.suggestions : TransferSuggestionValid(result.suggestions[i])

\* C29: a suggest_free_transfers call that runs beside data refreshes returns
\* what it would return on one of the snapshots that were committed during
\* the call: the candidate searches of one call never mix two snapshots.
C29_OneSnapshot ==
  (pc = "done" /\ request.op = "suggest_free_transfers" /\ result.error = "none") =>
    \E st \in request.snapshots :
      result = SuggestFreeTransfersTry(st, request.current_team, request.target_gameweek,
                                       request.max_suggestions, request.budget_available)

====
